---- MODULE Spec2Model ----
(***************************************************************************)
(* Cycle inference and prediction engine of flow-index                     *)
(* (src/utils/dateUtils.ts and its callers).                               *)
(*                                                                         *)
(* Representation.                                                         *)
(*   - An ISO date string "YYYY-MM-DD" is the number of its calendar day,  *)
(*     counted from Day 0 = 2024-10-17 (the day before is -1, and so on).  *)
(*   - A JavaScript Date is its getTime() value in whole minutes since     *)
(*     Day 0 00:00 UTC (the code's milliseconds divided by 60000; every    *)
(*     instant the engine builds is a whole minute).                       *)
(*   - Parsing (new Date(str)) and formatting (toISOString, formatDateISO) *)
(*     are computed as the runtime computes them, in the host time zone.   *)
(***************************************************************************)
EXTENDS Integers, Sequences, FiniteSets, TLC

VARIABLES
    tz,          \* the host time zone (what Date.getTimezoneOffset answers from)
    logs,        \* the DailyLog array handed to analyzeCyclesFromLogs
    defaultLen,  \* the defaultCycleLen argument
    segCalls,    \* calls of analyzeCyclesFromLogs made so far on this input: 0, 1, 2 (= two or more)
    segOut,      \* what the last call returned
    copyCalls,   \* calls of the other copy of analyzeCyclesFromLogs made on this input: 0 or 1
    copyOut,     \* what that call returned
    history,     \* the SimpleCycle array handed to calculateSmartCycleAverage
    userDefault, \* the userDefault argument
    avgCalls,    \* calls of calculateSmartCycleAverage made so far on this input: 0 or 1
    avgOut,      \* what the call returned
    regCycles,   \* the SimpleCycle array handed to getCycleRegularity
    regCalls,    \* calls of getCycleRegularity made so far on this input: 0 or 1
    regOut,      \* what the call returned
    cyclesProp,  \* the cycles prop of the calendar view
    settings,    \* the settings prop: avgCycleLength and avgPeriodLength
    projCalls,   \* evaluations of predictionData made so far on these props: 0 or 1
    predictionData, \* what the evaluation returned: the map and usedLength
    now,         \* the instant new Date() gives the status wheel
    elapsed,     \* days gone by since the first instant considered
    wheel,       \* what the status wheel shows, NoWheel until it is rendered
    shown,       \* the statusText of the wheel's latest rendering, "" before the first
    fmtDay,      \* the calendar day a Date is built for
    fmtDate,     \* the Date handed to formatDateISO
    fmtCalls,    \* calls of formatDateISO made so far on this input: 0 or 1
    fmtOut,      \* what the call returned
    appLogs,     \* the stored log list (storageService) and the logs state of App
    appCycles,   \* the stored cycle list and the cycles state of App
    newLog       \* the log handed to the latest handleSaveLog, NoLog before the first

segVars == <<logs, defaultLen, segCalls, segOut, copyCalls, copyOut>>
avgVars == <<history, userDefault, avgCalls, avgOut>>
regVars == <<regCycles, regCalls, regOut>>
projVars == <<cyclesProp, settings, projCalls, predictionData>>
wheelVars == <<now, elapsed, wheel, shown>>
fmtVars == <<fmtDay, fmtDate, fmtCalls, fmtOut>>
appVars == <<appLogs, appCycles, newLog>>
vars == <<tz, segVars, avgVars, regVars, projVars, wheelVars, fmtVars, appVars>>

(***************************************************************************)
(* Bounds of the model.                                                    *)
(***************************************************************************)
MaxLogs == 3
MaxCompleted == 4

\* Candidate log dates: gaps of 1, 7, 8 and 15 days between them, room for
\* four cycles, and dates on both sides of the daylight-saving changes below.
Days == {0, 1, 8, 16, 24}

\* Flow values a log is drawn with: absent, Spotting, and a period flow
\* (Light and Heavy take the same path as Medium through every function here).
NoFlow == "null"
LogFlows == {NoFlow, "Spotting", "Medium"}

DefaultLens == {28, 35}

\* Lengths the completed cycles of a history are drawn with: both ends of the
\* plausible range [21, 45], a value just outside each end, and values between.
HistoryLens == {20, 21, 26, 28, 30, 36, 45, 46}

\* Lengths the active cycle (index 0) is drawn with: one inside and one outside
\* the plausible range.
ActiveLens == {28, 46}

\* userDefault values: one inside and one outside the plausible range.
UserDefaults == {28, 50}

\* Histories handed to getCycleRegularity: up to MaxRegCycles cycles, all of
\* one base length except for at most MaxOdd of them.
MaxRegCycles == 8
MaxOdd == 2

\* The base length is inside or outside the plausible range.
RegBases == {28, 46}

\* Lengths of the cycles that differ from the base: one below the range, both
\* ends of the range, and values whose distances from 28 and from each other
\* fall on both sides of every step of the score (1, 2, 3, 4, 5, 7, 8, 10, 11).
RegLens == {20, 21, 29, 30, 31, 32, 35, 39, 45}

\* Days the status wheel is followed for.
MaxElapsed == 40

\* Calendar days formatDateISO is tried on: they include every clock change
\* of the zones below up to spring 2025.
MaxFmtDay == 170

(***************************************************************************)
(* The JavaScript Date runtime.                                            *)
(***************************************************************************)
MinutesPerDay == 1440

Zones == {"Asia/Kolkata", "UTC", "America/New_York", "Atlantic/Azores"}

\* Date.prototype.getTimezoneOffset at instant t in zone z: minutes to add to
\* local time to get UTC (positive west of Greenwich).  New York leaves
\* daylight time on 2024-11-03 06:00 UTC (day 17) and 2025-11-02 (day 381)
\* and enters it on 2025-03-09 07:00 UTC (day 143) and 2026-03-08 (day 507);
\* the Azores leave it on 2024-10-27 01:00 UTC (day 10) and 2025-10-26
\* (day 374) and enter it on 2025-03-30 01:00 UTC (day 164) and 2026-03-29
\* (day 528).
ZoneOffset(z, t) ==
    CASE z = "Asia/Kolkata"     -> -330
      [] z = "UTC"              -> 0
      [] z = "America/New_York" ->
             IF t < 17 * MinutesPerDay + 360 THEN 240
             ELSE IF t < 143 * MinutesPerDay + 420 THEN 300
             ELSE IF t < 381 * MinutesPerDay + 360 THEN 240
             ELSE IF t < 507 * MinutesPerDay + 420 THEN 300
             ELSE 240
      [] z = "Atlantic/Azores"  ->
             IF t < 10 * MinutesPerDay + 60 THEN 0
             ELSE IF t < 164 * MinutesPerDay + 60 THEN 60
             ELSE IF t < 374 * MinutesPerDay + 60 THEN 0
             ELSE IF t < 528 * MinutesPerDay + 60 THEN 60
             ELSE 0

getTimezoneOffset(date) == ZoneOffset(tz, date)

\* new Date("YYYY-MM-DD").getTime(): a date-only ISO string is UTC midnight.
ParseISODate(dateStr) == dateStr * MinutesPerDay

\* date.toISOString().split('T')[0]: the UTC calendar day of the instant.
ToISODateUTC(t) == t \div MinutesPerDay

\* The local wall-clock reading of an instant, in minutes since Day 0 00:00.
LocalTime(date) == date - getTimezoneOffset(date)

\* The offsets the host zone takes over the year (daylight and standard time).
ZoneOffsetsOf(z) == {ZoneOffset(z, 0), ZoneOffset(z, 100 * MinutesPerDay)}

\* The instant of a local wall-clock reading.  A reading that occurs twice
\* (clocks set back) or never (clocks set forward) is taken with the offset
\* in force before the change, as ECMAScript's UTC(t) prescribes.
UTCOfLocal(wall) ==
    LET instants == {t \in {wall + o : o \in ZoneOffsetsOf(tz)} : LocalTime(t) = wall}
        least(S) == CHOOSE x \in S : \A y \in S : x <= y
        greatest(S) == CHOOSE x \in S : \A y \in S : y <= x
    IN  IF instants # {} THEN least(instants)
        ELSE wall + greatest(ZoneOffsetsOf(tz))

\* Date.prototype.getDate: the local calendar day of the instant.  The day
\* of the month is kept as the day number, so that the carry setDate makes
\* into the next months is plain addition.
getDate(date) == LocalTime(date) \div MinutesPerDay

\* date.setDate(day): the same local time of day on the given local day.
setDate(date, day) == UTCOfLocal(day * MinutesPerDay + (LocalTime(date) % MinutesPerDay))

(***************************************************************************)
(* src/utils/dateUtils.ts                                                  *)
(***************************************************************************)
\* Variant of formatDateISO without the offset correction: the UTC day.
formatDateISO_NoOffset(date) == ToISODateUTC(date)

formatDateISO(date) ==
    LET offset == getTimezoneOffset(date)
        adjustedDate == date - offset
    IN  ToISODateUTC(adjustedDate)

\* Variant of diffDaysBetween that counts both end days.
diffDaysBetween_Inclusive(d1, d2) ==
    (ParseISODate(d2) - ParseISODate(d1)) \div MinutesPerDay + 1

\* Math.floor((new Date(d2).getTime() - new Date(d1).getTime()) / (1000 * 3600 * 24))
diffDaysBetween(d1, d2) ==
    (ParseISODate(d2) - ParseISODate(d1)) \div MinutesPerDay

Reverse(s) == [i \in 1..Len(s) |-> s[Len(s) + 1 - i]]

\* Variants of IsFlowLog: the test l.flow alone, and the test
\* l.flow !== 'Spotting' alone.
IsFlowLog_AnyFlow(l) == l.flow # NoFlow
IsFlowLog_NotSpotting(l) == l.flow # "Spotting"

\* l.flow && l.flow !== 'Spotting'
IsFlowLog(l) == l.flow # NoFlow /\ l.flow # "Spotting"

\* Array.prototype.sort with (a, b) => new Date(a.date) - new Date(b.date):
\* a stable sort, ascending by instant.  Insertion of x after every element
\* that does not compare greater.
RECURSIVE InsertByDate(_, _)
InsertByDate(sorted, x) ==
    IF sorted = << >> THEN << x >>
    ELSE LET last == sorted[Len(sorted)]
         IN  IF ParseISODate(last.date) - ParseISODate(x.date) > 0
             THEN Append(InsertByDate(SubSeq(sorted, 1, Len(sorted) - 1), x), last)
             ELSE Append(sorted, x)

RECURSIVE SortByDate(_)
SortByDate(s) ==
    IF s = << >> THEN << >>
    ELSE InsertByDate(SortByDate(SubSeq(s, 1, Len(s) - 1)), s[Len(s)])

\* Arrays are objects: a call works on references into a heap of arrays.
\* Array.prototype.filter leaves its receiver as it is and returns a newly
\* allocated array; Array.prototype.sort sorts its receiver in place.
ArrayFilter(heap, receiver, result) ==
    (result :> SelectSeq(heap[receiver], IsFlowLog)) @@ heap

ArraySort(heap, receiver) == [heap EXCEPT ![receiver] = SortByDate(@)]

\* Variant of FilterSort that sorts the array passed in and then filters it:
\* logs.sort(...).filter(...)
FilterSort_SortFirst(ls) ==
    ArrayFilter(ArraySort([logs |-> ls], "logs"), "logs", "flowLogs")

\* const flowLogs = logs.filter(...).sort(...): the heap after the statement,
\* holding the caller's array under "logs" and the local one under "flowLogs"
FilterSort(ls) ==
    ArraySort(ArrayFilter([logs |-> ls], "logs", "flowLogs"), "flowLogs")

FlowLogs(ls) == FilterSort(ls).flowLogs

\* if (diffDays > 7): the gap, in days, that still keeps two flow logs in one cycle
CycleGapDays == 7

\* Variant of IsNewCycle with diffDays >= 7.
IsNewCycle_AtLeast(currentLogDate, lastFlowLogDate) ==
    currentLogDate - lastFlowLogDate >= CycleGapDays * MinutesPerDay

IsNewCycle(currentLogDate, lastFlowLogDate) ==
    currentLogDate - lastFlowLogDate > CycleGapDays * MinutesPerDay

\* The cycle closed when a new one starts.
ClosedCycle(currentCycleStart, currentLogDate) ==
    LET prevCycleStartISO == formatDateISO(currentCycleStart)
        thisCycleStartISO == formatDateISO(currentLogDate)
        cycleLength == diffDaysBetween(prevCycleStartISO, thisCycleStartISO)
    IN  [startDate |-> prevCycleStartISO, length |-> cycleLength]

\* The final/current cycle.
OpenCycle(currentCycleStart, defaultCycleLen) ==
    [startDate |-> formatDateISO(currentCycleStart), length |-> defaultCycleLen]

\* Variant of NewCyclesArray: one array at module scope, kept from call to
\* call (the previous call reversed it in place and returned it).
SharedCyclesArray == segOut

\* const cycles: Cycle[] = [] -- a fresh array on every call.
NewCyclesArray == << >>

\* for (let i = 1; i < flowLogs.length; i++) { ... } from index i (1-based here:
\* flowLogs[i] is the code's flowLogs[i - 1]), ending with the push of the open
\* cycle.
RECURSIVE ScanFlowLogs(_, _, _, _, _, _)
ScanFlowLogs(flowLogs, i, currentCycleStart, lastFlowLogDate, cycles, defaultCycleLen) ==
    IF i > Len(flowLogs)
    THEN Append(cycles, OpenCycle(currentCycleStart, defaultCycleLen))
    ELSE LET currentLogDate == ParseISODate(flowLogs[i].date)
         IN  IF IsNewCycle(currentLogDate, lastFlowLogDate)
             THEN ScanFlowLogs(flowLogs, i + 1, currentLogDate, currentLogDate,
                               Append(cycles, ClosedCycle(currentCycleStart, currentLogDate)),
                               defaultCycleLen)
             ELSE ScanFlowLogs(flowLogs, i + 1, currentCycleStart, currentLogDate,
                               cycles, defaultCycleLen)

\* Variant of analyzeCyclesFromLogs that returns the cycles in the order pushed.
analyzeCyclesFromLogs_NoReverse(ls, defaultCycleLen) ==
    LET flowLogs == FlowLogs(ls)
    IN  IF Len(flowLogs) = 0 THEN << >>
        ELSE ScanFlowLogs(flowLogs, 2,
                          ParseISODate(flowLogs[1].date),
                          ParseISODate(flowLogs[1].date),
                          NewCyclesArray, defaultCycleLen)

analyzeCyclesFromLogs(ls, defaultCycleLen) ==
    LET flowLogs == FlowLogs(ls)
    IN  IF Len(flowLogs) = 0 THEN << >>
        ELSE Reverse(ScanFlowLogs(flowLogs, 2,
                                  ParseISODate(flowLogs[1].date),
                                  ParseISODate(flowLogs[1].date),
                                  NewCyclesArray, defaultCycleLen))

(***************************************************************************)
(* The other copy of analyzeCyclesFromLogs in the source.  Its filter, sort *)
(* and formatDateISO are the same code; the threshold and the length of a  *)
(* closed cycle differ.                                                    *)
(***************************************************************************)
\* if (diff > 10)
PeriodGapDays == 10

IsNewPeriod(currentLogDate, lastFlowDate) ==
    currentLogDate - lastFlowDate > PeriodGapDays * MinutesPerDay

\* Math.ceil(ms / (1000 * 3600 * 24)), the instants in minutes
MathCeilDays(minutes) == -((-minutes) \div MinutesPerDay)

\* The cycle the copy closes: length from the two instants, not from ISO dates.
ClosedPeriod(currentPeriodStart, currentLogDate) ==
    [startDate |-> formatDateISO(currentPeriodStart),
     length |-> MathCeilDays(currentLogDate - currentPeriodStart)]

RECURSIVE GroupFlowLogs(_, _, _, _, _, _)
GroupFlowLogs(flowLogs, i, currentPeriodStart, lastFlowDate, cycles, defaultCycleLen) ==
    IF i > Len(flowLogs)
    THEN Append(cycles, OpenCycle(currentPeriodStart, defaultCycleLen))
    ELSE LET currentLogDate == ParseISODate(flowLogs[i].date)
         IN  IF IsNewPeriod(currentLogDate, lastFlowDate)
             THEN GroupFlowLogs(flowLogs, i + 1, currentLogDate, currentLogDate,
                                Append(cycles, ClosedPeriod(currentPeriodStart, currentLogDate)),
                                defaultCycleLen)
             ELSE GroupFlowLogs(flowLogs, i + 1, currentPeriodStart, currentLogDate,
                                cycles, defaultCycleLen)

analyzeCyclesFromLogs_Copy(ls, defaultCycleLen) ==
    LET flowLogs == FlowLogs(ls)
    IN  IF Len(flowLogs) = 0 THEN << >>
        ELSE Reverse(GroupFlowLogs(flowLogs, 2,
                                   ParseISODate(flowLogs[1].date),
                                   ParseISODate(flowLogs[1].date),
                                   NewCyclesArray, defaultCycleLen))

(***************************************************************************)
(* IEEE 754 binary64 arithmetic, as far as calculateSmartCycleAverage uses *)
(* it.  A non-negative double below 64 is held exactly, as a whole number  *)
(* of units of 2^-55 in four limbs of 20 bits, least significant first.    *)
(***************************************************************************)
Limb == 2 ^ 20

\* F(x) and F(x, y) with the arguments evaluated once, before F is entered,
\* as a JavaScript call evaluates them.  (The value is the same as that of
\* F(x); only the number of times x is evaluated differs.)
Strict(F(_), x) == CHOOSE r \in {F(a) : a \in {x}} : TRUE
Strict2(F(_, _), x, y) == CHOOSE r \in {F(a, b) : a \in {x}, b \in {y}} : TRUE

\* Carry propagation over limbs that may exceed Limb.
RECURSIVE Carry(_, _)
Carry(ds, c) ==
    LET CarryOn(v, rest) == << v % Limb >> \o Carry(rest, v \div Limb)
    IN  IF ds = << >> THEN << >>
        ELSE Strict2(CarryOn, Head(ds) + c, Tail(ds))

BigAdd(x, y) ==
    LET Sum(a, b) == Carry(<< a[1] + b[1], a[2] + b[2], a[3] + b[3], a[4] + b[4] >>, 0)
    IN  Strict2(Sum, x, y)

BigMulInt(x, m) ==
    LET Product(a, n) == Carry(<< a[1] * n, a[2] * n, a[3] * n, a[4] * n >>, 0)
    IN  Strict2(Product, x, m)

\* Number of significant bits of a non-zero value.
BitLength(a) ==
    LET BitsUpTo(top) ==
            20 * (top - 1) + CHOOSE k \in 1..20 : 2 ^ (k - 1) <= a[top] /\ a[top] < 2 ^ k
    IN  Strict(BitsUpTo, CHOOSE i \in 1..4 : a[i] # 0 /\ \A j \in (i + 1)..4 : a[j] = 0)

\* Rounding of an exact result to the 53-bit significand: to nearest, ties to
\* the even significand.  (At most 8 low bits are dropped for values below 64.)
RoundToDouble(x) ==
    LET RoundedTo(a, k) ==
            IF k <= 0 THEN a
            ELSE LET p == 2 ^ k
                     r == a[1] % p
                     odd == (a[1] \div p) % 2 = 1
                     down == [a EXCEPT ![1] = a[1] - r]
                 IN  IF 2 * r > p \/ (2 * r = p /\ odd)
                     THEN BigAdd(down, << p, 0, 0, 0 >>)
                     ELSE down
        Rounded(a) == Strict2(RoundedTo, a, BitLength(a) - 53)
    IN  Strict(Rounded, x)

\* The doubles nearest to the literals 0.5, 0.3 and 0.2:
\* 0x10000000000000 * 2^-53, 0x13333333333333 * 2^-54, 0x1999999999999A * 2^-55.
w1 == << 0, 0, 16384, 0 >>
w2 == << 419430, 419430, 9830, 0 >>
w3 == << 629146, 629145, 6553, 0 >>

\* n * w and x + y in double arithmetic.
FloatMul(n, w) == RoundToDouble(BigMulInt(w, n))
FloatAdd(x, y) == RoundToDouble(BigAdd(x, y))

\* Math.round(x): the nearest integer, a tie going to the larger one.  Bit 55
\* is the unit, bit 54 the half.
MathRound(x) ==
    LET intPart == x[4] * 32 + x[3] \div 32768
        halfBit == (x[3] \div 16384) % 2
    IN  intPart + halfBit

\* Variant of MathRoundQuotient with Math.floor in place of Math.round.
MathRoundQuotient_Floor(sum, n) == sum \div n

\* Math.round(sum / n) for n = 1 or 2: the quotient is exact in double
\* arithmetic, a half rounds up.
MathRoundQuotient(sum, n) == (2 * sum + n) \div (2 * n)

(***************************************************************************)
(* src/utils/dateUtils.ts: calculateSmartCycleAverage                      *)
(***************************************************************************)
\* Variant of IsValidCycle without the upper end of the range.
IsValidCycle_NoUpper(c) == c.length >= 21

\* c.length >= 21 && c.length <= 45
IsValidCycle(c) == c.length >= 21 /\ c.length <= 45

\* Variant of CompletedCycles without the slice: the active cycle counts.
CompletedCycles_All(h) == h

\* history.slice(1)
CompletedCycles(h) == SubSeq(h, 2, Len(h))

ValidCycles(h) == SelectSeq(CompletedCycles(h), IsValidCycle)

RECURSIVE SumLengths(_)
SumLengths(cs) == IF cs = << >> THEN 0 ELSE Head(cs).length + SumLengths(Tail(cs))

\* (recent[0].length * w1) + (recent[1].length * w2) + (recent[2].length * w3)
WeightedSum(recent) ==
    FloatAdd(FloatAdd(FloatMul(recent[1].length, w1), FloatMul(recent[2].length, w2)),
             FloatMul(recent[3].length, w3))

\* Variant of calculateSmartCycleAverage that takes the last three valid
\* cycles of the list (validCycles.slice(-3)).
calculateSmartCycleAverage_LastThree(h, default) ==
    LET validCycles == ValidCycles(h)
        n == Len(validCycles)
    IN  IF n = 0 THEN default
        ELSE IF n < 3
             THEN MathRoundQuotient(SumLengths(validCycles), n)
             ELSE MathRound(WeightedSum(SubSeq(validCycles, n - 2, n)))

calculateSmartCycleAverage(h, default) ==
    LET Average(validCycles) ==
            IF Len(validCycles) = 0 THEN default
            ELSE IF Len(validCycles) < 3
                 THEN MathRoundQuotient(SumLengths(validCycles), Len(validCycles))
                 ELSE Strict(MathRound, WeightedSum(SubSeq(validCycles, 1, 3)))
    IN  Strict(Average, ValidCycles(h))

(***************************************************************************)
(* Inputs of the segmenter: every DailyLog array of at most MaxLogs logs,  *)
(* one log per date, in any order.                                         *)
(***************************************************************************)
DailyLog == [date : Days, flow : LogFlows]

OneLogPerDate(ls) == \A i, j \in 1..Len(ls) : ls[i].date = ls[j].date => i = j

RECURSIVE LogArrays(_)
LogArrays(n) ==
    IF n = 0 THEN {<< >>}
    ELSE LET shorter == LogArrays(n - 1)
         IN  shorter \cup {Append(ls, l) : ls \in {s \in shorter : Len(s) = n - 1},
                                           l \in DailyLog}

SegInputs == {ls \in LogArrays(MaxLogs) : OneLogPerDate(ls)}

(***************************************************************************)
(* The segmenter as a state machine: an input is fixed, and the function   *)
(* is called on it, any number of times.                                   *)
(***************************************************************************)
SegIdle ==
    /\ logs = << >>
    /\ defaultLen = 28
    /\ segCalls = 0
    /\ segOut = << >>
    /\ copyCalls = 0
    /\ copyOut = << >>

AvgIdle ==
    /\ history = << >>
    /\ userDefault = 28
    /\ avgCalls = 0
    /\ avgOut = 0

RegIdle ==
    /\ regCycles = << >>
    /\ regCalls = 0
    /\ regOut = 0

DefaultSettings == [avgCycleLength |-> 28, avgPeriodLength |-> 5]

EmptyMap == << >>

ProjIdle ==
    /\ cyclesProp = << >>
    /\ settings = DefaultSettings
    /\ projCalls = 0
    /\ predictionData = [map |-> EmptyMap, usedLength |-> 0]

\* The wheel's locals before the component has run.
NoWheel ==
    [daysDiff |-> 0, isFuture |-> FALSE, cycleDay |-> 0, daysLeft |-> 0,
     statusText |-> "", subText |-> [text |-> "", n |-> 0]]

WheelIdle ==
    /\ now = 0
    /\ elapsed = 0
    /\ wheel = NoWheel
    /\ shown = ""

FmtIdle ==
    /\ fmtDay = 0
    /\ fmtDate = 0
    /\ fmtCalls = 0
    /\ fmtOut = 0

\* No log has been saved yet.
NoLog == [date |-> -1, flow |-> NoFlow]

AppIdle ==
    /\ appLogs = << >>
    /\ appCycles = << >>
    /\ newLog = NoLog

SegInit ==
    /\ tz \in Zones
    /\ logs \in SegInputs
    /\ defaultLen \in DefaultLens
    /\ segCalls = 0
    /\ segOut = << >>
    /\ copyCalls = 0
    /\ copyOut = << >>
    /\ AvgIdle
    /\ RegIdle
    /\ ProjIdle
    /\ WheelIdle
    /\ FmtIdle
    /\ AppIdle

\* One call of analyzeCyclesFromLogs(logs, defaultLen).  The caller's array is
\* afterwards what the heap holds for it; the rest of the function only reads
\* flowLogs and builds new Date and Cycle objects.
SegCall ==
    /\ segOut' = analyzeCyclesFromLogs(logs, defaultLen)
    /\ logs' = FilterSort(logs).logs
    /\ segCalls' = IF segCalls = 0 THEN 1 ELSE 2
    /\ UNCHANGED <<tz, defaultLen, copyCalls, copyOut, avgVars, regVars, projVars, wheelVars, fmtVars, appVars>>

\* One call of the other copy of analyzeCyclesFromLogs on the same input.
SegCallCopy ==
    /\ copyCalls = 0
    /\ copyOut' = analyzeCyclesFromLogs_Copy(logs, defaultLen)
    /\ logs' = FilterSort(logs).logs
    /\ copyCalls' = 1
    /\ UNCHANGED <<tz, defaultLen, segCalls, segOut, avgVars, regVars, projVars, wheelVars, fmtVars, appVars>>

SegNext == SegCall \/ SegCallCopy

SegSpec == SegInit /\ [][SegNext]_vars

(***************************************************************************)
(* Inputs of the estimator: the empty list, and every list of an active    *)
(* cycle followed by at most MaxCompleted completed cycles, newest first,  *)
(* each cycle starting where the one after it in the list ends (the oldest *)
(* on day 0).                                                              *)
(***************************************************************************)
RECURSIVE LengthLists(_)
LengthLists(n) ==
    IF n = 0 THEN {<< >>}
    ELSE LET shorter == LengthLists(n - 1)
         IN  shorter \cup {<< l >> \o ls : ls \in {s \in shorter : Len(s) = n - 1},
                                           l \in HistoryLens}

RECURSIVE SumSeq(_)
SumSeq(ls) == IF ls = << >> THEN 0 ELSE Head(ls) + SumSeq(Tail(ls))

HistoryOf(lens) ==
    [i \in 1..Len(lens) |->
        [startDate |-> SumSeq(SubSeq(lens, i + 1, Len(lens))), length |-> lens[i]]]

AvgInputs ==
    {<< >>} \cup {HistoryOf(<< a >> \o ls) : a \in ActiveLens, ls \in LengthLists(MaxCompleted)}

AvgInit ==
    /\ tz = "UTC"
    /\ SegIdle
    /\ RegIdle
    /\ ProjIdle
    /\ WheelIdle
    /\ FmtIdle
    /\ AppIdle
    /\ history \in AvgInputs
    /\ userDefault \in UserDefaults
    /\ avgCalls = 0
    /\ avgOut = 0

\* One call of calculateSmartCycleAverage(history, userDefault).
AvgCall ==
    /\ avgCalls = 0
    /\ avgOut' = calculateSmartCycleAverage(history, userDefault)
    /\ avgCalls' = 1
    /\ UNCHANGED <<tz, segVars, history, userDefault, regVars, projVars, wheelVars, fmtVars, appVars>>

AvgNext == AvgCall

AvgSpec == AvgInit /\ [][AvgNext]_vars

(***************************************************************************)
(* What the claims about the segmenter speak of, stated on the input alone *)
(* (calendar days of the logs), without the code's operators.              *)
(***************************************************************************)
PeriodFlows == {"Light", "Medium", "Heavy"}

\* The dates of the qualifying logs: those with a flow that is not Spotting.
QualDates(ls) == {ls[i].date : i \in {k \in 1..Len(ls) : ls[k].flow \in PeriodFlows}}

\* d1 and d2 are the dates of two consecutive qualifying logs.
ConsecutiveQual(Q, d1, d2) ==
    d1 \in Q /\ d2 \in Q /\ d1 < d2 /\ ~ \E d \in Q : d1 < d /\ d < d2

\* The qualifying dates that open a cycle: the earliest one, and every one
\* that comes 8 days or more after the qualifying log before it.
CycleOpeners(Q) ==
    {d \in Q : \A p \in Q : ConsecutiveQual(Q, p, d) => d - p >= 8}

\* The k-th smallest element of a finite set of integers.
RECURSIVE NthSmallest(_, _)
NthSmallest(S, k) ==
    LET first == CHOOSE i \in S : \A j \in S : i <= j
    IN  IF k = 1 THEN first ELSE NthSmallest(S \ {first}, k - 1)

StartDates(cycles) == {cycles[i].startDate : i \in 1..Len(cycles)}

SegCalled == segCalls >= 1

\* C1: a gap of exactly 7 days between two consecutive qualifying logs keeps
\* them in one cycle and a gap of 8 days or more makes the later log the start
\* of a new cycle: the result has one cycle per qualifying log that is the
\* earliest or comes 8 or more days after the previous one (7 days apart: one
\* cycle, 8: two), and, counted from the oldest, the k-th cycle is the one
\* the k-th such log opened (its startDate is that log's day, or the day
\* before where the time zone shifts it).
C1_BoundaryThreshold ==
    SegCalled =>
        LET openers == CycleOpeners(QualDates(logs))
            n == Len(segOut)
        IN  /\ n = Cardinality(openers)
            /\ \A k \in 1..n :
                   segOut[n + 1 - k].startDate \in
                       {NthSmallest(openers, k) - 1, NthSmallest(openers, k)}

\* C1 witness: a call on qualifying logs on days 1, 8 and 16 (gaps of exactly
\* 7 and exactly 8 days) returned two cycles.
C1_Witness ==
    /\ SegCalled
    /\ QualDates(logs) = {1, 8, 16}
    /\ Len(segOut) = 2

\* C2: the result is sorted newest first: startDate strictly decreases along
\* the list, so no two cycles share a startDate.
C2_NewestFirst ==
    SegCalled =>
        \A i, j \in 1..Len(segOut) : i < j => segOut[i].startDate > segOut[j].startDate

\* C2 witness: a call returned three cycles.
C2_Witness == SegCalled /\ Len(segOut) = 3

\* C3: logs whose flow is Spotting or absent never change the result: it is
\* the result for the qualifying logs alone, so such a log neither starts a
\* cycle nor bridges a gap.
C3_SpottingExclusion ==
    SegCalled =>
        segOut = analyzeCyclesFromLogs(
                     SelectSeq(logs, LAMBDA l : l.flow \in PeriodFlows), defaultLen)

\* C3 witness: Medium on days 0 and 8 with Spotting on day 1 between them
\* (7 days before the second) gave two cycles: the Spotting log bridged nothing.
C3_Witness ==
    /\ SegCalled
    /\ QualDates(logs) = {0, 8}
    /\ \E i \in 1..Len(logs) : logs[i].date = 1 /\ logs[i].flow = "Spotting"
    /\ Len(segOut) = 2

\* C4: in every host time zone each startDate returned is exactly the date of
\* the qualifying log that opened that cycle; the oldest cycle starts on the
\* earliest qualifying log's date.
C4_StartDateIsLogDate ==
    SegCalled => StartDates(segOut) = CycleOpeners(QualDates(logs))

C23_InputUntouched == [][logs' = logs]_vars

\* C23 witness: a call has been made on an array that is not in date order and
\* holds a log the filter drops, and it found a cycle.
C23_Witness ==
    /\ SegCalled
    /\ logs # SortByDate(logs)
    /\ SelectSeq(logs, IsFlowLog) # logs
    /\ Len(segOut) >= 1

\* The gaps, in days, between consecutive qualifying logs in date order.
QualGaps(ls) ==
    LET flowLogs == FlowLogs(ls)
    IN  {(ParseISODate(flowLogs[i + 1].date) - ParseISODate(flowLogs[i].date))
            \div MinutesPerDay : i \in 1..(Len(flowLogs) - 1)}

BothCalled == SegCalled /\ copyCalls = 1

\* C27: the two copies of the segmenter (threshold 7 and threshold 10) return
\* identical cycle lists, startDates and lengths included, for every log set
\* in which no gap between consecutive qualifying logs is 8, 9 or 10 days.
C27_CopiesAgree ==
    (BothCalled /\ QualGaps(logs) \cap {8, 9, 10} = {}) => copyOut = segOut

\* The same where the host zone is UTC or east of it.
C27_CopiesAgreeEast ==
    (BothCalled /\ QualGaps(logs) \cap {8, 9, 10} = {} /\ tz \in {"UTC", "Asia/Kolkata"})
        => copyOut = segOut

\* The startDates alone agree in every zone.
C27_CopiesAgreeOnStarts ==
    (BothCalled /\ QualGaps(logs) \cap {8, 9, 10} = {})
        => /\ Len(copyOut) = Len(segOut)
           /\ \A i \in 1..Len(segOut) : copyOut[i].startDate = segOut[i].startDate

\* With a gap of 8 days the two copies do differ, in every zone.
C27_GapOfEight ==
    (BothCalled /\ 8 \in QualGaps(logs)) => copyOut # segOut

\* C29: every completed cycle the segmenter produces (every element but the
\* first) has a length of at least 8 days, for every log set with one log per
\* date.
C29_CompletedAtLeastEight ==
    SegCalled => \A i \in 2..Len(segOut) : segOut[i].length >= CycleGapDays + 1

\* The same where the day shift of formatDateISO is the same at both ends of
\* every cycle (every zone of the model but the Azores).
C29_CompletedAtLeastEightFixedShift ==
    (SegCalled /\ tz # "Atlantic/Azores")
        => \A i \in 2..Len(segOut) : segOut[i].length >= CycleGapDays + 1

\* C6: every completed cycle (every element but the first) has as length the
\* whole-day difference between its startDate and the startDate of the
\* element just before it in the list.
C6_CompletedLength ==
    SegCalled =>
        \A i \in 2..Len(segOut) :
            segOut[i].length = segOut[i - 1].startDate - segOut[i].startDate

\* C6 witness: a call returned a completed cycle of 8 days and one of 15 days.
C6_Witness ==
    /\ SegCalled
    /\ \E i, j \in 2..Len(segOut) : segOut[i].length = 8 /\ segOut[j].length = 15

\* C7: in a non-empty result the first element has length defaultLength, and a
\* single qualifying flow day yields exactly one cycle, starting on that day,
\* with length defaultLength.
C7_OpenCycle ==
    (SegCalled /\ segOut # << >>) =>
        /\ segOut[1].length = defaultLen
        /\ \A d \in Days :
               QualDates(logs) = {d} =>
                   segOut = << [startDate |-> d, length |-> defaultLen] >>

\* C8: the result is empty exactly when no log has a flow other than Spotting.
C8_EmptyIffNoFlow ==
    SegCalled => (segOut = << >> <=> QualDates(logs) = {})

\* C8 witness: a call on a log set holding a Spotting log and a log without
\* flow, and no other, returned the empty list.
C8_Witness ==
    /\ SegCalled
    /\ Len(logs) = 2
    /\ {logs[i].flow : i \in 1..Len(logs)} = {"Spotting", NoFlow}
    /\ segOut = << >>

(***************************************************************************)
(* What the claims about the estimator speak of, stated on the input alone.*)
(***************************************************************************)
AvgCalled == avgCalls = 1

InPlausibleRange(n) == 21 <= n /\ n <= 45

\* Positions (1-based; the active cycle is position 1) of the valid cycles:
\* completed cycles with a plausible length.
ValidPositions(h) == {i \in 2..Len(h) : InPlausibleRange(h[i].length)}

\* Ten times the weighted sum 0.5 a + 0.3 b + 0.2 c of the first three valid
\* lengths, in exact arithmetic.
TenfoldWeightedSum(h) ==
    LET P == ValidPositions(h)
    IN  5 * h[NthSmallest(P, 1)].length + 3 * h[NthSmallest(P, 2)].length
          + 2 * h[NthSmallest(P, 3)].length

C10_FallbackToDefault ==
    (AvgCalled /\ ValidPositions(history) = {}) => avgOut = userDefault

\* C10 witness: a call with userDefault 50 on a history whose completed
\* cycles have lengths 46 and 20 returned 50.
C10_Witness ==
    /\ AvgCalled
    /\ Len(history) = 3
    /\ history[2].length = 46
    /\ history[3].length = 20
    /\ userDefault = 50
    /\ avgOut = 50

\* The positions of the valid cycles the estimator uses: all of them when
\* there are one or two, the three nearest the head of the list otherwise.
UsedPositions(h) ==
    LET valid == ValidPositions(h)
    IN  IF Cardinality(valid) < 3 THEN valid
        ELSE {i \in valid : Cardinality({j \in valid : j < i}) < 3}

UsedLengths(h) == {h[i].length : i \in UsedPositions(h)}

\* C30: whenever at least one completed cycle has a length in [21,45], the
\* estimator returns an integer in [21,45] that lies between the minimum and
\* the maximum of the valid lengths it used, whatever userDefault is.
C30_WithinUsedLengths ==
    (AvgCalled /\ ValidPositions(history) # {}) =>
        /\ avgOut \in 21..45
        /\ \E lo, hi \in UsedLengths(history) : lo <= avgOut /\ avgOut <= hi
        /\ \A d \in UserDefaults : calculateSmartCycleAverage(history, d) = avgOut

\* C30 witness: a call with userDefault 50 on completed lengths 46, 21, 45, 20
\* and 36, in some order, used 21, 45 and 36 and returned a value strictly
\* between 21 and 45.
C30_Witness ==
    /\ AvgCalled
    /\ userDefault = 50
    /\ Len(history) = 5
    /\ history[2].length = 46
    /\ UsedLengths(history) = {21, 45, 36}
    /\ avgOut \in 22..44

\* C30 witness: a single valid length among outliers is returned as it is.
C30_WitnessSingle ==
    /\ AvgCalled
    /\ userDefault = 50
    /\ Cardinality(ValidPositions(history)) = 1
    /\ Len(history) = 4
    /\ avgOut = 45

\* The sum of the lengths at a set of positions of a history.
RECURSIVE SumAt(_, _)
SumAt(h, P) ==
    IF P = {} THEN 0
    ELSE LET i == CHOOSE j \in P : TRUE
         IN  h[i].length + SumAt(h, P \ {i})

\* C11: with exactly one or two valid cycles the result is the unweighted
\* mean of their lengths rounded to the nearest integer, a mean ending in .5
\* rounding up; lengths outside [21, 45] are discarded before the count is
\* taken, not clamped into the range.
C11_SimpleMean ==
    LET P == ValidPositions(history)
        n == Cardinality(P)
    IN  (AvgCalled /\ n \in {1, 2}) =>
            /\ 2 * n * avgOut <= 2 * SumAt(history, P) + n
            /\ 2 * SumAt(history, P) + n < 2 * n * (avgOut + 1)

\* C11 witness: completed lengths 21, 46, 26 (the 46 is discarded, leaving
\* two valid lengths of mean 23.5) gave 24.
C11_Witness ==
    /\ AvgCalled
    /\ Len(history) = 4
    /\ history[2].length = 21
    /\ history[3].length = 46
    /\ history[4].length = 26
    /\ avgOut = 24

\* C12: the active cycle is ignored: a history that differs from the one
\* given only in its first element (in its length, its startDate or both)
\* gives the same result for the same userDefault.
C12_ActiveCycleIgnored ==
    (AvgCalled /\ history # << >>) =>
        \A len \in ActiveLens \cup HistoryLens : \A shift \in {0, 3} :
            avgOut = calculateSmartCycleAverage(
                         [history EXCEPT ![1] = [startDate |-> history[1].startDate + shift,
                                                 length |-> len]],
                         userDefault)

\* C12 witness: the active cycle has the plausible length 28, the one
\* completed cycle has length 21, and the result is 21.
C12_Witness ==
    /\ AvgCalled
    /\ Len(history) = 2
    /\ history[1].length = 28
    /\ history[2].length = 21
    /\ avgOut = 21

(***************************************************************************)
(* The regularity score (getCycleRegularity).                              *)
(***************************************************************************)
\* Variant of HasEnoughHistory that is content with three cycles.
HasEnoughHistory_Three(cs) == Len(cs) >= 3

\* Not (cycles.length < 4).
HasEnoughHistory(cs) == Len(cs) >= 4

\* Variant of RegularityWindow without the upper end: cycles.slice(1).
RegularityWindow_All(cs) == SubSeq(cs, 2, Len(cs))

\* cycles.slice(1, 7): the elements at indices 1..6, fewer if the array is
\* shorter.
RegularityWindow(cs) == SubSeq(cs, 2, IF Len(cs) < 7 THEN Len(cs) ELSE 7)

\* .map(c => c.length).filter(l => l >= 21 && l <= 45)
RECURSIVE CompletedLengths(_)
CompletedLengths(cs) ==
    IF cs = << >> THEN << >>
    ELSE LET l == Head(cs).length
         IN  (IF l >= 21 /\ l <= 45 THEN << l >> ELSE << >>) \o CompletedLengths(Tail(cs))

\* Math.min(...ls) and Math.max(...ls) of a non-empty list.
RECURSIVE MathMin(_)
MathMin(ls) ==
    IF Len(ls) = 1 THEN ls[1]
    ELSE LET m == MathMin(Tail(ls)) IN IF ls[1] < m THEN ls[1] ELSE m

RECURSIVE MathMax(_)
MathMax(ls) ==
    IF Len(ls) = 1 THEN ls[1]
    ELSE LET m == MathMax(Tail(ls)) IN IF ls[1] > m THEN ls[1] ELSE m

\* Variant of ScoreOfVariation with strict comparisons.
ScoreOfVariation_Strict(variation) ==
    IF variation < 2 THEN 100
    ELSE IF variation < 4 THEN 80
    ELSE IF variation < 7 THEN 60
    ELSE IF variation < 10 THEN 40
    ELSE 20

\* The chain of returns on the variation.
ScoreOfVariation(variation) ==
    IF variation <= 2 THEN 100
    ELSE IF variation <= 4 THEN 80
    ELSE IF variation <= 7 THEN 60
    ELSE IF variation <= 10 THEN 40
    ELSE 20

getCycleRegularity(cs) ==
    IF ~HasEnoughHistory(cs) THEN 100
    ELSE LET completedLengths == CompletedLengths(RegularityWindow(cs))
         IN  IF Len(completedLengths) < 2 THEN 100
             ELSE ScoreOfVariation(MathMax(completedLengths) - MathMin(completedLengths))

\* Sets of at most MaxOdd positions of a history of n cycles.
OddSets(n) == {P \in SUBSET (1..n) : Cardinality(P) <= MaxOdd}

\* The history of n cycles of base length b with the lengths g at P.
RegHistory(n, b, P, g) == HistoryOf([i \in 1..n |-> IF i \in P THEN g[i] ELSE b])

RegInit ==
    /\ tz = "UTC"
    /\ SegIdle
    /\ AvgIdle
    /\ ProjIdle
    /\ WheelIdle
    /\ FmtIdle
    /\ AppIdle
    /\ \E n \in 0..MaxRegCycles, b \in RegBases :
           \E P \in OddSets(n) :
               \E g \in [P -> RegLens] :
                   regCycles = RegHistory(n, b, P, g)
    /\ regCalls = 0
    /\ regOut = 0

\* One call of getCycleRegularity(regCycles).
RegCall ==
    /\ regCalls = 0
    /\ regOut' = getCycleRegularity(regCycles)
    /\ regCalls' = 1
    /\ UNCHANGED <<tz, segVars, avgVars, regCycles, projVars, wheelVars, fmtVars, appVars>>

RegNext == RegCall

RegSpec == RegInit /\ [][RegNext]_vars

RegCalled == regCalls = 1

\* The positions of a history (1-based: the array's indices 1..6 are the
\* positions 2..7) whose lengths the score is said to depend on.
RegPositions(h) == {i \in 2..7 : i <= Len(h) /\ InPlausibleRange(h[i].length)}

RegLengths(h) == {h[i].length : i \in RegPositions(h)}

SetMax(S) == CHOOSE x \in S : \A y \in S : y <= x

SetMin(S) == CHOOSE x \in S : \A y \in S : x <= y

\* C13: the score is 100 for every list of fewer than 4 cycles in total,
\* whatever their lengths, and for every list with fewer than 2 lengths in
\* [21, 45] among positions 1..6.
C13_TooLittleData ==
    (RegCalled /\ (Len(regCycles) < 4 \/ Cardinality(RegPositions(regCycles)) < 2))
        => regOut = 100

\* C13 witness: three cycles whose completed lengths 28 and 39 are 11 apart
\* scored 100.
C13_Witness ==
    /\ RegCalled
    /\ Len(regCycles) = 3
    /\ regCycles[2].length = 28
    /\ regCycles[3].length = 39
    /\ regOut = 100

\* C13 witness of the second case: six cycles of which one completed length
\* is in range scored 100.
C13_WitnessOneValid ==
    /\ RegCalled
    /\ Len(regCycles) = 6
    /\ Cardinality(RegPositions(regCycles)) = 1
    /\ regOut = 100

\* The score C14 gives for a variation.
ClaimedScore(v) ==
    CASE v <= 2  -> 100
      [] v \in 3..4  -> 80
      [] v \in 5..7  -> 60
      [] v \in 8..10 -> 40
      [] v >= 11 -> 20

\* C14: for a history of at least 4 cycles with at least 2 lengths in
\* [21, 45] among positions 1..6, the score is the step function of the
\* variation, the largest minus the smallest of those lengths: 100 up to 2,
\* 80 up to 4, 60 up to 7, 40 up to 10, 20 beyond.  The cycle at index 0, the
\* cycles at positions 7 and beyond and the out-of-range lengths have no
\* influence.
C14_ScoreSteps ==
    (RegCalled /\ Len(regCycles) >= 4 /\ Cardinality(RegPositions(regCycles)) >= 2)
        => regOut = ClaimedScore(SetMax(RegLengths(regCycles)) - SetMin(RegLengths(regCycles)))

\* C14 witness: eight cycles, the active one of length 35 and the one at
\* position 7 of length 39, all between of length 28, scored 100.
C14_Witness ==
    /\ RegCalled
    /\ Len(regCycles) = 8
    /\ regCycles[1].length = 35
    /\ regCycles[8].length = 39
    /\ \A i \in 2..7 : regCycles[i].length = 28
    /\ regOut = 100

\* The lengths of the completed cycles of a history, in order.
CompletedLengthsOf(h) == [i \in 1..(Len(h) - 1) |-> h[i + 1].length]

\* C15 as stated: a history whose completed cycles (all but the active one)
\* have lengths [28, 35] scores 60, and one with [28, 29] scores 100.
C15_LiteralScores ==
    (RegCalled /\ regCycles # << >>) =>
        /\ CompletedLengthsOf(regCycles) = <<28, 35>> => regOut = 60
        /\ CompletedLengthsOf(regCycles) = <<28, 29>> => regOut = 100

\* C15 amended: a history of at least 4 cycles whose in-range completed
\* lengths at positions 1..6 are 28 and 35 scores 60, and one where they are
\* 28 and 29 scores 100; a history of the active cycle and two completed
\* cycles of lengths [28, 35] or [28, 29] scores 100.
C15_ScoresWithEnoughHistory ==
    RegCalled =>
        /\ (Len(regCycles) >= 4 /\ RegLengths(regCycles) = {28, 35}) => regOut = 60
        /\ (Len(regCycles) >= 4 /\ RegLengths(regCycles) = {28, 29}) => regOut = 100
        /\ (Len(regCycles) = 3 /\ CompletedLengthsOf(regCycles) \in {<<28, 35>>, <<28, 29>>})
               => regOut = 100

\* C15 witness: the active cycle and completed cycles of lengths 28, 35 and
\* 20 (out of range) scored 60.
C15_Witness ==
    /\ RegCalled
    /\ CompletedLengthsOf(regCycles) = <<28, 35, 20>>
    /\ regOut = 60

(***************************************************************************)
(* The calendar projection (predictionData of src/components/CalendarView). *)
(***************************************************************************)
\* The anchors, histories and settings the projection is made from.
ProjStarts == {0, 9, 17}

\* Completed lengths behind the anchor: none, one at either end of the
\* plausible range, one outside it, and three that are averaged to 29.
ProjCompleted == {<< >>, <<21>>, <<45>>, <<46>>, <<30, 28, 26>>}

\* The cycles prop with active cycle starting on start: newest first, each
\* older cycle starting its length before the next.
RECURSIVE CyclesFrom(_, _)
CyclesFrom(start, lens) ==
    IF lens = << >> THEN << >>
    ELSE << [startDate |-> start - Head(lens), length |-> Head(lens)] >>
             \o CyclesFrom(start - Head(lens), Tail(lens))

ProjCycles ==
    {<< >>} \cup {<< [startDate |-> s, length |-> 28] >> \o CyclesFrom(s, ls) :
                     s \in ProjStarts, ls \in ProjCompleted}

\* avgPeriodLength 0 stands for a value that is falsy in JavaScript.
ProjSettings == [avgCycleLength : {5, 28}, avgPeriodLength : {0, 1, 5, 9}]

ProjectedCycles == 12

LutealDays == 14

\* settings.avgPeriodLength || 5
PeriodLenOf(s) == IF s.avgPeriodLength = 0 THEN 5 ELSE s.avgPeriodLength

\* map.set(iso, marker): the entry at iso is added or replaced.
MapSet(map, iso, marker) == (iso :> marker) @@ map

PeriodMarker == [isProjectedPeriod |-> TRUE, isFertile |-> FALSE, isOvulationDay |-> FALSE]

FertileMarker(isOvulationDay) ==
    [isProjectedPeriod |-> FALSE, isFertile |-> TRUE, isOvulationDay |-> isOvulationDay]

\* The loop over i: every day of the projected period is set to the period
\* marker, whatever the map held there.
MarkPeriod(map, nextStart, periodLen) ==
    LET pDay(i) == setDate(nextStart, getDate(nextStart) + i)
        isos == {formatDateISO(pDay(i)) : i \in 0..(periodLen - 1)}
    IN  [iso \in isos |-> PeriodMarker] @@ map

\* The loop over o: a day is set unless the map holds a projected period
\* there.  The loop itself writes no period marker, so the test reads the map
\* as it was before the loop; were two values of o to name one day, the later
\* one would stay.
MarkFertile(map, ovulationDate) ==
    LET fDay(o) == setDate(ovulationDate, getDate(ovulationDate) + o)
        isoOf(o) == formatDateISO(fDay(o))
        existingIsPeriod(iso) == iso \in DOMAIN map /\ map[iso].isProjectedPeriod
        written == {o \in -5..1 : ~existingIsPeriod(isoOf(o))}
        lastWrite(iso) == CHOOSE o \in written :
                              /\ isoOf(o) = iso
                              /\ \A p \in written : isoOf(p) = iso => p <= o
    IN  [iso \in {isoOf(o) : o \in written} |-> FertileMarker(lastWrite(iso) = 0)] @@ map

\* The loop over c from c on.
RECURSIVE ProjectFrom(_, _, _, _, _)
ProjectFrom(map, latestStart, smartLength, periodLen, c) ==
    IF ~(c <= ProjectedCycles) THEN map
    ELSE LET nextStart == setDate(latestStart, getDate(latestStart) + (smartLength * c))
             withPeriod == MarkPeriod(map, nextStart, periodLen)
             ovulationDate == setDate(nextStart, getDate(nextStart) - LutealDays)
             withFertile == MarkFertile(withPeriod, ovulationDate)
         IN  ProjectFrom(withFertile, latestStart, smartLength, periodLen, c + 1)

\* Variant of HasLatestCycle that wants a completed cycle too.
HasLatestCycle_Completed(cs) == Len(cs) > 1

\* cycles.length > 0
HasLatestCycle(cs) == Len(cs) > 0

predictionDataOf(cs, s) ==
    LET smartLength == calculateSmartCycleAverage(cs, s.avgCycleLength)
        periodLen == PeriodLenOf(s)
    IN  [map |-> IF HasLatestCycle(cs)
                     THEN ProjectFrom(EmptyMap, ParseISODate(cs[1].startDate),
                                      smartLength, periodLen, 1)
                     ELSE EmptyMap,
         usedLength |-> smartLength]

ProjInit ==
    /\ tz \in Zones
    /\ SegIdle
    /\ AvgIdle
    /\ RegIdle
    /\ WheelIdle
    /\ FmtIdle
    /\ AppIdle
    /\ cyclesProp \in ProjCycles
    /\ settings \in ProjSettings
    /\ projCalls = 0
    /\ predictionData = [map |-> EmptyMap, usedLength |-> 0]

\* One evaluation of predictionData on the props.
ProjCall ==
    /\ projCalls = 0
    /\ predictionData' = predictionDataOf(cyclesProp, settings)
    /\ projCalls' = 1
    /\ UNCHANGED <<tz, segVars, avgVars, regVars, cyclesProp, settings, wheelVars, fmtVars, appVars>>

ProjNext == ProjCall

ProjSpec == ProjInit /\ [][ProjNext]_vars

ProjCalled == projCalls = 1

\* C16: the projection of an empty cycle list is the empty map, for every
\* smartLength and periodLength; the projection of a non-empty list is not
\* empty.
C16_EmptyIffNoCycles ==
    ProjCalled => (DOMAIN predictionData.map = {} <=> cyclesProp = << >>)

\* C16 witness: no cycles, and the map is empty.
C16_Witness ==
    /\ ProjCalled
    /\ cyclesProp = << >>
    /\ DOMAIN predictionData.map = {}

\* C16 witness of the other direction: one cycle, and the map is not empty.
C16_WitnessOneCycle ==
    /\ ProjCalled
    /\ Len(cyclesProp) = 1
    /\ DOMAIN predictionData.map # {}

\* The anchor of the projection as the claims name it: cycles[0].startDate.
Anchor == cyclesProp[1].startDate

\* The dates the claims give to cycle c: its first day and its ovulation day.
ClaimedNextStart(c) == Anchor + predictionData.usedLength * c

ClaimedOvulation(c) == ClaimedNextStart(c) - 14

HoldsAt(date, marker) ==
    /\ date \in DOMAIN predictionData.map
    /\ predictionData.map[date] = marker

IsPeriodAt(date) ==
    /\ date \in DOMAIN predictionData.map
    /\ predictionData.map[date].isProjectedPeriod

\* C17: for every c in 1..12 and every i in 0..periodLength-1 the final map
\* holds {isProjectedPeriod: true, isFertile: false, isOvulationDay: false}
\* at the date cycles[0].startDate + smartLength*c + i; no fertile or
\* ovulation marking replaces such an entry.
C17_PeriodDaysWin ==
    (ProjCalled /\ cyclesProp # << >>) =>
        \A c \in 1..12 : \A i \in 0..(settings.avgPeriodLength - 1) :
            HoldsAt(ClaimedNextStart(c) + i,
                    [isProjectedPeriod |-> TRUE, isFertile |-> FALSE, isOvulationDay |-> FALSE])

\* C18: for every c in 1..12 and every o in -5..1 the date
\* cycles[0].startDate + smartLength*c - 14 + o is marked fertile, with
\* isOvulationDay exactly when o = 0, unless that date is a projected period
\* day; no date outside these windows is marked fertile.
C18_FertileWindow ==
    (ProjCalled /\ cyclesProp # << >>) =>
        /\ \A c \in 1..12 : \A o \in -5..1 :
               \/ IsPeriodAt(ClaimedOvulation(c) + o)
               \/ HoldsAt(ClaimedOvulation(c) + o,
                          [isProjectedPeriod |-> FALSE, isFertile |-> TRUE,
                           isOvulationDay |-> (o = 0)])
        /\ \A date \in DOMAIN predictionData.map :
               predictionData.map[date].isFertile =>
                   \E c \in 1..12 : \E o \in -5..1 : date = ClaimedOvulation(c) + o

(***************************************************************************)
(* The status wheel (src/components/CycleWheel.tsx) and the latestCycle    *)
(* that src/App.tsx hands it.                                              *)
(***************************************************************************)
\* Start dates of the active cycle: shortly after the first instants below,
\* with the autumn or the spring clock change between or just behind.
WheelStarts == {3, 19, 141}

WheelCompleted == {<< >>, <<21>>, <<30, 28, 26>>}

WheelCycles ==
    {<< >>} \cup {<< [startDate |-> s, length |-> 28] >> \o CyclesFrom(s, ls) :
                     s \in WheelStarts, ls \in WheelCompleted}

\* avgPeriodLength 0 stands for a falsy value; 12 is longer than the cycle
\* length 10.
WheelSettings == [avgCycleLength : {10, 28}, avgPeriodLength : {0, 3, 9, 12}]

\* The first instants considered: half an hour after and before UTC midnight,
\* on day 0 and on day 135.
FirstInstants == {30, 1410, 135 * MinutesPerDay + 30, 135 * MinutesPerDay + 1410}

\* new Date(year, monthIndex, day): local midnight of a calendar day.
LocalMidnight(day) == UTCOfLocal(day * MinutesPerDay)

\* App.tsx: the newest cycle, or one that starts today when there is none.
latestCycleOf(cs, s, today) ==
    IF Len(cs) > 0 THEN cs[1]
    ELSE [startDate |-> formatDateISO(today), length |-> s.avgCycleLength]

\* Variant of StatusTextOf that tests the fertile window before the period.
StatusTextOf_FertileFirst(isFuture, daysLeft, isPeriod, isOvulationWindow, isLuteal) ==
    IF isFuture THEN "Not Started"
    ELSE IF daysLeft < 0 THEN "Late"
    ELSE IF isOvulationWindow THEN "Fertile Window"
    ELSE IF isPeriod THEN "Menstruation"
    ELSE IF isLuteal THEN "Luteal Phase"
    ELSE "Follicular Phase"

\* The chain of branches that sets statusText.
StatusTextOf(isFuture, daysLeft, isPeriod, isOvulationWindow, isLuteal) ==
    IF isFuture THEN "Not Started"
    ELSE IF daysLeft < 0 THEN "Late"
    ELSE IF isPeriod THEN "Menstruation"
    ELSE IF isOvulationWindow THEN "Fertile Window"
    ELSE IF isLuteal THEN "Luteal Phase"
    ELSE "Follicular Phase"

MathAbs(x) == IF x < 0 THEN 0 - x ELSE x

\* The number and the wording of subText in each branch.
SubTextOf(statusText, daysDiff, cycleDay, daysLeft) ==
    CASE statusText = "Not Started"    -> [text |-> "Starts in n days", n |-> MathAbs(daysDiff)]
      [] statusText = "Late"           -> [text |-> "n Days Late", n |-> MathAbs(daysLeft)]
      [] statusText = "Menstruation"   -> [text |-> "Day n", n |-> cycleDay]
      [] statusText = "Fertile Window" -> [text |-> "High chance of pregnancy", n |-> 0]
      [] statusText = "Luteal Phase"   -> [text |-> "n Days until period", n |-> daysLeft]
      [] OTHER                         -> [text |-> "Day n", n |-> cycleDay]

\* Variant of IsPeriodDay with a strict comparison.
IsPeriodDay_Strict(cycleDay, periodLen) == cycleDay < periodLen

\* cycleDay <= periodLen
IsPeriodDay(cycleDay, periodLen) == cycleDay <= periodLen

\* The component's locals for the props and today = new Date().
CycleWheel(latestCycle, s, cs, today) ==
    LET periodLen == PeriodLenOf(s)
        todayMidnight == LocalMidnight(getDate(today))
        startMidnight == LocalMidnight(latestCycle.startDate)
        diffTime == todayMidnight - startMidnight
        Locals(dynamicLength, daysDiff) ==
            LET cycleLen == dynamicLength
                isFuture == daysDiff < 0
                cycleDay == IF isFuture THEN 1 ELSE IF daysDiff + 1 > 1 THEN daysDiff + 1 ELSE 1
                daysLeft == cycleLen - cycleDay
                isPeriod == IsPeriodDay(cycleDay, periodLen)
                ovulationDay == cycleLen - 14
                isOvulationWindow == MathAbs(cycleDay - ovulationDay) <= 2
                isLuteal == cycleDay > (ovulationDay + 2)
                statusText == StatusTextOf(isFuture, daysLeft, isPeriod, isOvulationWindow, isLuteal)
            IN  [daysDiff |-> daysDiff, isFuture |-> isFuture, cycleDay |-> cycleDay,
                 daysLeft |-> daysLeft, statusText |-> statusText,
                 subText |-> SubTextOf(statusText, daysDiff, cycleDay, daysLeft)]
    IN  Strict2(Locals, calculateSmartCycleAverage(cs, s.avgCycleLength),
                diffTime \div MinutesPerDay)

WheelInit ==
    /\ tz \in Zones
    /\ SegIdle
    /\ AvgIdle
    /\ RegIdle
    /\ cyclesProp \in WheelCycles
    /\ settings \in WheelSettings
    /\ projCalls = 0
    /\ predictionData = [map |-> EmptyMap, usedLength |-> 0]
    /\ now \in FirstInstants
    /\ elapsed = 0
    /\ wheel = NoWheel
    /\ shown = ""
    /\ FmtIdle
    /\ AppIdle

\* The component renders at the instant now.
WheelRender ==
    /\ wheel = NoWheel
    /\ wheel' = CycleWheel(latestCycleOf(cyclesProp, settings, now), settings, cyclesProp, now)
    /\ shown' = wheel'.statusText
    /\ UNCHANGED <<tz, segVars, avgVars, regVars, projVars, now, elapsed, fmtVars, appVars>>

\* A day goes by; what was rendered is discarded.
NextDay ==
    /\ elapsed < MaxElapsed
    /\ now' = now + MinutesPerDay
    /\ elapsed' = elapsed + 1
    /\ wheel' = NoWheel
    /\ UNCHANGED <<tz, segVars, avgVars, regVars, projVars, shown, fmtVars, appVars>>

WheelNext == WheelRender \/ NextDay

WheelSpec == WheelInit /\ [][WheelNext]_vars

Rendered == wheel # NoWheel

\* The phase C19 gives a cycle day.
ClaimedPhase(cycleDay, smartLength, periodLength) ==
    LET daysLeft == smartLength - cycleDay
        gap == cycleDay - (smartLength - 14)
    IN  CASE daysLeft < 0 -> "Late"
          [] daysLeft >= 0 /\ cycleDay <= periodLength -> "Menstruation"
          [] daysLeft >= 0 /\ cycleDay > periodLength /\ gap \in -2..2 -> "Fertile Window"
          [] daysLeft >= 0 /\ cycleDay > periodLength /\ gap \notin -2..2
                /\ cycleDay > smartLength - 12 -> "Luteal Phase"
          [] OTHER -> "Follicular Phase"

\* The smartLength and periodLength the wheel classifies with.
WheelSmartLength == calculateSmartCycleAverage(cyclesProp, settings.avgCycleLength)

WheelPeriodLength == IF settings.avgPeriodLength = 0 THEN 5 ELSE settings.avgPeriodLength

\* C19: for a started cycle (daysDiff >= 0, cycleDay = daysDiff + 1, daysLeft =
\* smartLength - cycleDay) the reported phase is the first rule that matches
\* in the order Late, Menstruation, Fertile Window, Luteal, otherwise
\* Follicular; exactly one phase is reported.
C19_FirstMatchingPhase ==
    (Rendered /\ wheel.daysDiff >= 0) =>
        /\ wheel.cycleDay = wheel.daysDiff + 1
        /\ wheel.daysLeft = WheelSmartLength - wheel.cycleDay
        /\ wheel.statusText = ClaimedPhase(wheel.cycleDay, WheelSmartLength, WheelPeriodLength)

\* C19 witness: day 7 of a cycle of smart length 21 with period length 9 lies
\* in the fertile window too and is reported as Menstruation.
C19_Witness ==
    /\ Rendered
    /\ WheelSmartLength = 21
    /\ settings.avgPeriodLength = 9
    /\ wheel.daysDiff = 6
    /\ wheel.statusText = "Menstruation"

\* Today's calendar date where the wheel runs.
Today == getDate(now)

ActiveStart == latestCycleOf(cyclesProp, settings, now).startDate

\* C20: when the active cycle's startDate is after today, the wheel reports
\* Not Started with isFuture true and daysUntil = |daysDiff|, the number of
\* days from today to the start, for every smartLength and periodLength.
C20_NotStarted ==
    (Rendered /\ ActiveStart > Today) =>
        /\ wheel.statusText = "Not Started"
        /\ wheel.isFuture
        /\ wheel.subText.n = ActiveStart - Today

\* C25: with an empty cycle history the wheel reports Not Started, not
\* Menstruation or any other phase.
C25_EmptyHistoryNotStarted ==
    (Rendered /\ cyclesProp = << >>) => wheel.statusText = "Not Started"

\* What the wheel does report with an empty cycle history: day 1 of a cycle
\* that starts today, as Menstruation, in every zone and for every settings.
C25_EmptyHistoryIsDayOne ==
    (Rendered /\ cyclesProp = << >>) =>
        /\ ActiveStart = Today
        /\ wheel.daysDiff = 0
        /\ wheel.cycleDay = 1
        /\ wheel.statusText = "Menstruation"

(***************************************************************************)
(* The wheel followed day after day over one active cycle.  The days go by, *)
(* and the tracker tab renders the wheel again whenever the App's state     *)
(* changes (the greeting timer alone sets state every minute), so neither  *)
(* step is put off for ever.  The active cycle is one whose end lies       *)
(* within the days followed.                                               *)
(***************************************************************************)
EndsWithinHorizon(cs, s, first) ==
    cs[1].startDate + calculateSmartCycleAverage(cs, s.avgCycleLength) + 2
        <= first \div MinutesPerDay + MaxElapsed

WheelLiveInit ==
    /\ WheelInit
    /\ cyclesProp # << >>
    /\ EndsWithinHorizon(cyclesProp, settings, now)

WheelLiveSpec ==
    WheelLiveInit /\ [][WheelNext]_vars /\ WF_vars(NextDay) /\ WF_vars(WheelRender)

\* The order of the phases.
PhaseRank(statusText) ==
    CASE statusText = "Not Started"      -> 0
      [] statusText = "Menstruation"     -> 1
      [] statusText = "Follicular Phase" -> 2
      [] statusText = "Fertile Window"   -> 3
      [] statusText = "Luteal Phase"     -> 4
      [] statusText = "Late"             -> 5

ShowsPhase(p) == Rendered /\ wheel.statusText = p

\* C28: for a fixed active cycle, as today advances one day at a time the
\* phase the wheel reports never moves backwards in the order Not Started,
\* Menstruation, Follicular, Fertile Window, Luteal, Late (phases may be
\* skipped); Late is eventually reached; and once Late is reported, every
\* later day reports Late.
C28_PhasesAdvance ==
    /\ [][shown # "" => PhaseRank(shown') >= PhaseRank(shown)]_vars
    /\ <>ShowsPhase("Late")
    /\ [][shown = "Late" => shown' = "Late"]_vars

\* C28 witness: a cycle that was reported as Not Started is, on a later day
\* of the run, reported as Late.
C28_Witness ==
    /\ ShowsPhase("Late")
    /\ ActiveStart > getDate(now - elapsed * MinutesPerDay)
    /\ elapsed >= WheelSmartLength

\* The wheel's cycle day lies in the fertile window or in the luteal range.
InFertileOrLuteal ==
    \/ wheel.cycleDay - (WheelSmartLength - 14) \in -2..2
    \/ wheel.cycleDay > WheelSmartLength - 12

\* C21 as stated: cycleDay = periodLength is classified Menstruation, and
\* cycleDay = periodLength + 1 is classified Follicular whenever that day is
\* outside the fertile window and the luteal range.
C21_PeriodBoundary ==
    (Rendered /\ ~wheel.isFuture) =>
        /\ wheel.cycleDay = WheelPeriodLength => wheel.statusText = "Menstruation"
        /\ (wheel.cycleDay = WheelPeriodLength + 1 /\ ~InFertileOrLuteal)
               => wheel.statusText = "Follicular Phase"

\* C21 amended: cycleDay = periodLength is classified Menstruation provided
\* the cycle is not late (cycleDay <= smartLength), and Late otherwise;
\* cycleDay = periodLength + 1 is classified Follicular whenever that day is
\* outside the fertile window and the luteal range.
C21_PeriodBoundaryUnlessLate ==
    (Rendered /\ ~wheel.isFuture) =>
        /\ (wheel.cycleDay = WheelPeriodLength /\ wheel.cycleDay <= WheelSmartLength)
               => wheel.statusText = "Menstruation"
        /\ (wheel.cycleDay = WheelPeriodLength /\ wheel.cycleDay > WheelSmartLength)
               => wheel.statusText = "Late"
        /\ (wheel.cycleDay = WheelPeriodLength + 1 /\ ~InFertileOrLuteal)
               => wheel.statusText = "Follicular Phase"

\* C21 witness: with smart length 28 and period length 3, day 4 is reported
\* as Follicular.
C21_Witness ==
    /\ Rendered
    /\ WheelSmartLength = 28
    /\ settings.avgPeriodLength = 3
    /\ wheel.cycleDay = 4
    /\ wheel.statusText = "Follicular Phase"

\* C21 witness of the first half: with smart length 28 and period length 3,
\* day 3 is reported as Menstruation.
C21_WitnessLastPeriodDay ==
    /\ Rendered
    /\ WheelSmartLength = 28
    /\ settings.avgPeriodLength = 3
    /\ wheel.cycleDay = 3
    /\ wheel.statusText = "Menstruation"

(***************************************************************************)
(* formatDateISO on Dates built from a calendar day.                       *)
(***************************************************************************)
\* Local times of day the Date is built with: midnight and noon.
FmtMinutes == {0, 720}

\* new Date(year, monthIndex, day, 0, minutes): that local time on the day.
LocalDateTime(day, minutes) == UTCOfLocal(day * MinutesPerDay + minutes)

FmtInit ==
    /\ tz \in Zones
    /\ SegIdle
    /\ AvgIdle
    /\ RegIdle
    /\ ProjIdle
    /\ WheelIdle
    /\ AppIdle
    /\ fmtDay \in 0..MaxFmtDay
    /\ \E m \in FmtMinutes : fmtDate = LocalDateTime(fmtDay, m)
    /\ fmtCalls = 0
    /\ fmtOut = 0

\* One call of formatDateISO(fmtDate).
FmtCall ==
    /\ fmtCalls = 0
    /\ fmtOut' = formatDateISO(fmtDate)
    /\ fmtCalls' = 1
    /\ UNCHANGED <<tz, segVars, avgVars, regVars, projVars, wheelVars, fmtDay, fmtDate, appVars>>

FmtNext == FmtCall

FmtSpec == FmtInit /\ [][FmtNext]_vars

FmtCalled == fmtCalls = 1

\* C22: for a Date at local midnight of calendar day D, in every time zone,
\* formatDateISO returns D, never the day before or after.
C22_LocalCalendarDate ==
    (FmtCalled /\ fmtDate = LocalMidnight(fmtDay)) => fmtOut = fmtDay

\* C22 witness: local midnight of day 20 in New York (05:00 UTC) gave day 20.
C22_Witness ==
    /\ FmtCalled
    /\ tz = "America/New_York"
    /\ fmtDay = 20
    /\ fmtDate = 20 * MinutesPerDay + 300
    /\ fmtOut = 20

\* C22 witness east of Greenwich: local midnight of day 20 in Kolkata (18:30
\* UTC of day 19) gave day 20.
C22_WitnessEast ==
    /\ FmtCalled
    /\ tz = "Asia/Kolkata"
    /\ fmtDay = 20
    /\ fmtDate = 20 * MinutesPerDay - 330
    /\ fmtOut = 20

(***************************************************************************)
(* src/App.tsx, src/services/storageService.ts: saving a daily log.  A new  *)
(* user starts with no logs and no cycles (subscribeToUserData); the log    *)
(* sheet then saves one log at a time, for any date and with any flow, the  *)
(* cleared flow (null) included, until MaxAppLogs dates are held.           *)
(***************************************************************************)
\* Dates held by the stored log list at most, and the dates the log sheet is
\* opened for: 8 days apart, on both sides of the autumn clock changes.
MaxAppLogs == 3
AppDays == {0, 8, 16}
AppLog == [date : AppDays, flow : LogFlows]

\* Variant of saveLog that always pushes.
saveLog_AlwaysPush(stored, log) == Append(stored, log)

\* storageService.saveLog: logs.findIndex(l => l.date === log.date), then
\* logs[existingIndex] = log or logs.push(log); the list is returned.
saveLog(stored, log) ==
    LET matching == {i \in 1..Len(stored) : stored[i].date = log.date}
    IN  IF matching # {}
        THEN LET existingIndex == CHOOSE i \in matching : \A j \in matching : i <= j
             IN  [stored EXCEPT ![existingIndex] = log]
        ELSE Append(stored, log)

\* [...cycles].sort((a, b) => new Date(b.startDate) - new Date(a.startDate)):
\* a stable sort, newest start first.
RECURSIVE InsertByStartDesc(_, _)
InsertByStartDesc(sorted, x) ==
    IF sorted = << >> THEN << x >>
    ELSE LET last == sorted[Len(sorted)]
         IN  IF ParseISODate(x.startDate) - ParseISODate(last.startDate) > 0
             THEN Append(InsertByStartDesc(SubSeq(sorted, 1, Len(sorted) - 1), x), last)
             ELSE Append(sorted, x)

RECURSIVE saveCycles(_)
saveCycles(cycles) ==
    IF cycles = << >> THEN << >>
    ELSE InsertByStartDesc(saveCycles(SubSeq(cycles, 1, Len(cycles) - 1)), cycles[Len(cycles)])

\* Variant of IsTruthyFlow that takes every log, a cleared flow included.
IsTruthyFlow_Always(log) == TRUE

\* if (newLog.flow)
IsTruthyFlow(log) == log.flow # NoFlow

\* The cycles state after handleSaveLog, lines 136-148.
CyclesAfterSave(updatedLogs, log, cycles, s) ==
    IF IsTruthyFlow(log)
    THEN LET detectedCycles == analyzeCyclesFromLogs(updatedLogs, s.avgCycleLength)
         IN  IF Len(detectedCycles) > 0 THEN saveCycles(detectedCycles)
             ELSE IF Len(cycles) > 0 /\ SelectSeq(updatedLogs, IsFlowLog) = << >>
                  THEN << >>
                  ELSE cycles
    ELSE cycles

AppInit ==
    /\ tz \in Zones
    /\ SegIdle
    /\ AvgIdle
    /\ RegIdle
    /\ ProjIdle
    /\ WheelIdle
    /\ FmtIdle
    /\ AppIdle

handleSaveLog(log) ==
    LET updatedLogs == saveLog(appLogs, log)
    IN  /\ Len(updatedLogs) <= MaxAppLogs
        /\ appLogs' = updatedLogs
        /\ appCycles' = CyclesAfterSave(updatedLogs, log, appCycles, settings)
        /\ newLog' = log
        /\ UNCHANGED <<tz, segVars, avgVars, regVars, projVars, wheelVars, fmtVars>>

AppNext == \E log \in AppLog : handleSaveLog(log)

AppSpec == AppInit /\ [][AppNext]_vars

Saved == newLog # NoLog

\* C24: after every saved log the stored cycle list is what the segmenter
\* gives for the updated logs: whenever the logs change (a flow added,
\* changed, or cleared on an existing date) the cycles are replaced wholesale,
\* and once no log with a non-Spotting flow remains the stored list is empty.
C24_CyclesFollowLogs ==
    Saved =>
        /\ appCycles = analyzeCyclesFromLogs(appLogs, settings.avgCycleLength)
        /\ (SelectSeq(appLogs, IsFlowLog) = << >> => appCycles = << >>)

\* The same after a save of a log that has a flow (Spotting included), when
\* every save before it had one too.
C24_CyclesFollowLogsWithFlow ==
    (Saved /\ \A i \in 1..Len(appLogs) : appLogs[i].flow # NoFlow) =>
        /\ appCycles = analyzeCyclesFromLogs(appLogs, settings.avgCycleLength)
        /\ (SelectSeq(appLogs, IsFlowLog) = << >> => appCycles = << >>)

\* C26: after any sequence of saves the stored log list holds at most one log
\* per date: a save for a date already present replaces that entry in place
\* and leaves every other log as it was, and a save for a new date appends
\* exactly one entry.
C26_OneLogPerDate ==
    /\ [](OneLogPerDate(appLogs))
    /\ [][LET held == {i \in 1..Len(appLogs) : appLogs[i].date = newLog'.date}
          IN  /\ Len(appLogs') = Len(appLogs) + (IF held = {} THEN 1 ELSE 0)
              /\ \A i \in 1..Len(appLogs) :
                    appLogs'[i] = IF i \in held THEN newLog' ELSE appLogs[i]
              /\ held = {} => appLogs'[Len(appLogs')] = newLog']_vars

\* C26 witness: three dates are held, and the latest save replaced the log of
\* the date saved first, which is still first in the list, with another flow.
C26_Witness ==
    /\ Len(appLogs) = 3
    /\ appLogs[1] = newLog
    /\ newLog.flow = NoFlow
    /\ appCycles # << >>
    /\ \A i \in 1..Len(appLogs) : appLogs[i].flow # "Medium"

====
